---- MODULE Spec2Model ----
(***************************************************************************)
(* Model of oauth.py: a user-registration and bearer-token service.        *)
(* The credential store is the MongoDB collection (documents in insertion  *)
(* order), requests are the FastAPI handlers, and create_user is split at  *)
(* its two awaits (find_one, insert_one), the only handler that touches    *)
(* the store twice.                                                        *)
(***************************************************************************)
EXTENDS Integers, Sequences, FiniteSets

VARIABLES
    store,                        \* db[MONGODB_COLLECTION_NAME]: sequence of user documents
    in_flight,                    \* register requests suspended between get_user and insert_one
                                  \* (a set: at most one per payload at a time)
    now,                          \* datetime.now(timezone.utc), in minutes
    ACCESS_TOKEN_EXPIRE_MINUTES,  \* config.env_config, fixed at start-up
    held,                         \* per user, the access_token of the latest successful login
    resp,                         \* the last HTTP response sent (or the last direct call's result)
    registered,                   \* history: <<email, password>> pairs whose register returned 200
                                  \* (less the accounts removed from outside since)
    rejected                      \* history: held tokens that verification rejected as expired

vars == <<store, in_flight, now, ACCESS_TOKEN_EXPIRE_MINUTES, held, resp, registered, rejected>>

----------------------------------------------------------------------------
(* Bounds of the model *)

MaxStore == 2
MaxTime == 2
MaxExpireMinutes == 1
MaxTokenTime == 17

Emails == {"a@x.com", "b@x.com"}
Passwords == {"pw1", "pw2"}

----------------------------------------------------------------------------
(* Python values *)

PyNone == [kind |-> "None"]
PyFalse == [kind |-> "False"]

PyStr(v) == [kind |-> "str", value |-> v]

timedelta(m) == [kind |-> "timedelta", minutes |-> m]

\* bool(x) for the values an `if x:` of the program meets
Truthy(x) ==
    CASE x.kind = "None" -> FALSE
      [] x.kind = "False" -> FALSE
      [] x.kind = "timedelta" -> x.minutes # 0
      [] OTHER -> TRUE

UserInDB(email, hashed_password, disabled) ==
    [kind |-> "doc", email |-> email, hashed_password |-> hashed_password,
     disabled |-> disabled]

----------------------------------------------------------------------------
(* utils.pwd_context: a one-way hash and its verify routine. A hash is an  *)
(* opaque value that verifies exactly the password it was made from; it is *)
(* never the plaintext itself.                                             *)

get_password_hash(password) == [hash_of |-> password]

verify_password(password, hashed_password) == hashed_password.hash_of = password

----------------------------------------------------------------------------
(* jose.jwt with SECRET_KEY: a token is its claims and the key that signed it *)

SECRET_KEY == "SECRET_KEY"
DEFAULT_EXPIRE_MINUTES == 15

jwt_encode(claims, key) == [sub |-> claims.sub, exp |-> claims.exp, sig |-> key]

\* jwt.decode: JWTError on a bad signature, ExpiredSignatureError (a JWTError)
\* when exp < now, the claims otherwise
jwt_decode(token, key, t) ==
    IF token.sig # key THEN [error |-> "JWTError", sub |-> PyNone]
    ELSE IF token.exp < t THEN [error |-> "ExpiredSignatureError", sub |-> PyNone]
    ELSE [error |-> "", sub |-> token.sub]

----------------------------------------------------------------------------
(* Results of a call: a return value or a raised HTTPException *)

HTTPException(status_code, detail, bearer) ==
    [status_code |-> status_code, detail |-> detail, bearer |-> bearer]

NoException == HTTPException(0, "", FALSE)

Return(v) == [raised |-> FALSE, exc |-> NoException, value |-> v]
Raise(e) == [raised |-> TRUE, exc |-> e, value |-> PyNone]

credentials_exception == HTTPException(401, "Could not validate credentials", TRUE)

\* what the framework answers when a handler dies of an uncaught exception
InternalServerError == HTTPException(500, "Internal Server Error", FALSE)

----------------------------------------------------------------------------
(* The functions of oauth.py *)

Matching(s, email) == {i \in 1..Len(s) : s[i].email = email}

Min(S) == CHOOSE i \in S : \A j \in S : i <= j

\* faulty variant: the filter is applied to the first document only
find_one_first_document(s, email) ==
    IF s # <<>> /\ s[1].email = email THEN s[1] ELSE PyNone

find_one(s, email) ==
    IF Matching(s, email) = {} THEN PyNone ELSE s[Min(Matching(s, email))]

\* faulty variant: the lookup never finds the user
get_user_never_found(s, email) == PyFalse

get_user(s, email) ==
    LET existing_user == find_one(s, email)
    IN  IF Truthy(existing_user) THEN existing_user ELSE PyFalse

authenticate_user(s, email, password) ==
    LET user == get_user(s, email)
    IN  IF ~Truthy(user) THEN PyFalse
        ELSE IF ~verify_password(password, user.hashed_password) THEN PyFalse
        ELSE user

create_access_token(sub, expires_delta, t) ==
    LET expire == IF Truthy(expires_delta)
                  THEN t + expires_delta.minutes
                  ELSE t + DEFAULT_EXPIRE_MINUTES
    IN  jwt_encode([sub |-> PyStr(sub), exp |-> expire], SECRET_KEY)

\* faulty variant: the expiry of the token is not enforced
verify_token_no_expiry(token, t) ==
    LET payload == jwt_decode(token, SECRET_KEY, t)
    IN  IF payload.error = "JWTError" THEN Raise(credentials_exception)
        ELSE IF token.sub = PyNone THEN Raise(credentials_exception)
        ELSE Return(token.sub)

\* the try block of get_current_user: the token's subject, or the 401
verify_token(token, t) ==
    LET payload == jwt_decode(token, SECRET_KEY, t)
    IN  IF payload.error # "" THEN Raise(credentials_exception)
        ELSE IF payload.sub = PyNone THEN Raise(credentials_exception)
        ELSE Return(payload.sub)

get_current_user(s, token, t) ==
    LET token_data == verify_token(token, t)
    IN  IF token_data.raised THEN token_data
        ELSE LET user == get_user(s, token_data.value.value)
             IN  IF user = PyNone THEN Raise(credentials_exception)
                 ELSE Return(user)

\* faulty variant: the disabled flag is not looked at
get_current_active_user_no_check(current_user) ==
    IF current_user.raised THEN current_user
    ELSE IF current_user.value.kind # "doc" THEN Raise(InternalServerError)
    ELSE current_user

get_current_active_user(current_user) ==
    IF current_user.raised THEN current_user
    ELSE IF current_user.value.kind # "doc" THEN Raise(InternalServerError)
    ELSE IF current_user.value.disabled THEN Raise(HTTPException(400, "Inactive user", FALSE))
    ELSE current_user

----------------------------------------------------------------------------
(* HTTP responses *)

NoToken == [sub |-> PyNone, exp |-> 0, sig |-> ""]

UserCreate(email, password) == [email |-> email, password |-> password]

Response(op, status_code, detail, bearer, owner) ==
    [op |-> op, status_code |-> status_code, detail |-> detail,
     bearer |-> bearer, owner |-> owner]

\* FastAPI's answer to a raised HTTPException
ErrorResponse(op, e) ==
    Response(op, e.status_code, e.detail, e.bearer, "")

NoResponse == Response("", 0, "", FALSE, "")

\* tokens a client can present without knowing SECRET_KEY
ForgedTokens == {[sub |-> PyStr(e), exp |-> MaxTime + DEFAULT_EXPIRE_MINUTES, sig |-> "attacker"] : e \in Emails}

\* a correctly signed token with no subject claim (an input of verify_token only)
SublessToken == [sub |-> PyNone, exp |-> MaxTokenTime, sig |-> SECRET_KEY]

HeldTokens == {held[e] : e \in Emails} \ {NoToken}

Expired(token, t) == jwt_decode(token, SECRET_KEY, t).error = "ExpiredSignatureError"

----------------------------------------------------------------------------
(* Start-up *)

Init ==
    /\ store = <<>>
    /\ in_flight = {}
    /\ now = 0
    /\ ACCESS_TOKEN_EXPIRE_MINUTES \in 0..MaxExpireMinutes
    /\ held = [e \in Emails |-> NoToken]
    /\ resp = NoResponse
    /\ registered = {}
    /\ rejected = {}

----------------------------------------------------------------------------
(* Handlers *)

\* GET /
health_check ==
    /\ resp' = Response("health_check", 200, "App status OK", FALSE, "")
    /\ UNCHANGED <<store, in_flight, now, ACCESS_TOKEN_EXPIRE_MINUTES, held, registered, rejected>>

\* GET /email/{email}
check_email(email) ==
    /\ LET existing_user == find_one(store, email)
       IN  resp' = IF Truthy(existing_user)
                   THEN ErrorResponse("check_email",
                                      HTTPException(400, "E-mail already exists", FALSE))
                   ELSE Response("check_email", 200,
                                 "E-mail is available", FALSE, "")
    /\ UNCHANGED <<store, in_flight, now, ACCESS_TOKEN_EXPIRE_MINUTES, held, registered, rejected>>

\* POST /register/, up to the await of get_user in create_user
create_user_find(email, password) ==
    /\ UserCreate(email, password) \notin in_flight
    /\ LET existing_user == get_user(store, email)
       IN  IF Truthy(existing_user)
           THEN /\ resp' = ErrorResponse("register",
                                         HTTPException(400, "E-mail already exists", FALSE))
                /\ UNCHANGED in_flight
           ELSE /\ in_flight' = in_flight \cup {UserCreate(email, password)}
                /\ UNCHANGED resp
    /\ UNCHANGED <<store, now, ACCESS_TOKEN_EXPIRE_MINUTES, held, registered, rejected>>

\* faulty variant: the insert replaces the documents that have the same email (an upsert)
create_user_upsert(user) ==
    /\ user \in in_flight
    /\ Len(store) < MaxStore
    /\ LET hashed_password == get_password_hash(user.password)
           new_user == UserInDB(user.email, hashed_password, FALSE)
       IN  /\ store' = IF Matching(store, user.email) = {}
                       THEN Append(store, new_user)
                       ELSE [i \in 1..Len(store) |->
                               IF store[i].email = user.email THEN new_user ELSE store[i]]
           /\ resp' = Response("register", 200, "Registration successful", FALSE, "")
           /\ registered' = registered \cup {<<user.email, user.password>>}
    /\ in_flight' = in_flight \ {user}
    /\ UNCHANGED <<now, ACCESS_TOKEN_EXPIRE_MINUTES, held, rejected>>

\* POST /register/, from the hashing to the answer: insert_one
create_user_insert(user) ==
    /\ user \in in_flight
    /\ Len(store) < MaxStore
    /\ LET hashed_password == get_password_hash(user.password)
           new_user == UserInDB(user.email, hashed_password, FALSE)
       IN  /\ store' = Append(store, new_user)
           /\ resp' = Response("register", 200, "Registration successful", FALSE, "")
           /\ registered' = registered \cup {<<user.email, user.password>>}
    /\ in_flight' = in_flight \ {user}
    /\ UNCHANGED <<now, ACCESS_TOKEN_EXPIRE_MINUTES, held, rejected>>

\* POST /token
login_for_access_token(username, password) ==
    LET user == authenticate_user(store, username, password)
    IN  IF ~Truthy(user)
        THEN /\ resp' = ErrorResponse("login",
                                      HTTPException(401, "Incorrect username or password", TRUE))
             /\ UNCHANGED <<store, in_flight, now, ACCESS_TOKEN_EXPIRE_MINUTES, held, registered, rejected>>
        ELSE LET access_token_expires == timedelta(ACCESS_TOKEN_EXPIRE_MINUTES)
                 access_token == create_access_token(user.email, access_token_expires, now)
             IN  /\ held' = [held EXCEPT ![username] = access_token]
                 /\ rejected' = rejected \cap {held'[e] : e \in Emails}
                 /\ resp' = Response("login", 200, "", FALSE, "")
                 /\ UNCHANGED <<store, in_flight, now, ACCESS_TOKEN_EXPIRE_MINUTES, registered>>

\* GET /users/me
read_own_info(token) ==
    LET current_user == get_current_active_user(get_current_user(store, token, now))
    IN  /\ resp' = IF current_user.raised
                   THEN ErrorResponse("read_own_info", current_user.exc)
                   ELSE Response("read_own_info", 200, "", FALSE, current_user.value.email)
        /\ rejected' = IF Expired(token, now) THEN rejected \cup {token} ELSE rejected
        /\ UNCHANGED <<store, in_flight, now, ACCESS_TOKEN_EXPIRE_MINUTES, held, registered>>

\* the clock
Tick(max) ==
    /\ now < max
    /\ now' = now + 1
    /\ UNCHANGED <<store, in_flight, ACCESS_TOKEN_EXPIRE_MINUTES, held, resp, registered, rejected>>

Next ==
    \/ health_check
    \/ \E email \in Emails : check_email(email)
    \/ \E email \in Emails, password \in Passwords : create_user_find(email, password)
    \/ \E user \in in_flight : create_user_insert(user)
    \/ \E username \in Emails, password \in Passwords : login_for_access_token(username, password)
    \/ \E token \in HeldTokens \cup ForgedTokens : read_own_info(token)
    \/ Tick(MaxTime)

Spec == Init /\ [][Next]_vars

----------------------------------------------------------------------------
(* The store's other writers: the database is an external collaborator and *)
(* its administrator can remove or disable an account.                     *)

ExternalDelete(email) ==
    /\ Matching(store, email) # {}
    /\ store' = SelectSeq(store, LAMBDA u : u.email # email)
    /\ registered' = {x \in registered : x[1] # email}
    /\ UNCHANGED <<in_flight, now, ACCESS_TOKEN_EXPIRE_MINUTES, held, resp, rejected>>

ExternalDisable(email) ==
    /\ \E i \in Matching(store, email) : ~store[i].disabled
    /\ store' = [i \in 1..Len(store) |->
                   IF store[i].email = email
                   THEN UserInDB(email, store[i].hashed_password, TRUE)
                   ELSE store[i]]
    /\ UNCHANGED <<in_flight, now, ACCESS_TOKEN_EXPIRE_MINUTES, held, resp, registered, rejected>>

EnvNext ==
    \/ Next
    \/ \E email \in Emails : ExternalDelete(email)
    \/ \E email \in Emails : ExternalDisable(email)

EnvInit == Init /\ ACCESS_TOKEN_EXPIRE_MINUTES = MaxExpireMinutes

EnvSpec == EnvInit /\ [][EnvNext]_vars

----------------------------------------------------------------------------
(* create_access_token and the token check of get_current_user called      *)
(* directly, over their input space                                        *)

Deltas == {PyNone} \cup {timedelta(m) : m \in {0, 1, DEFAULT_EXPIRE_MINUTES}}

Mint(email, expires_delta) ==
    LET encoded_jwt == create_access_token(email, expires_delta, now)
    IN  /\ held' = [held EXCEPT ![email] = encoded_jwt]
        /\ rejected' = rejected \cap {held'[e] : e \in Emails}
        /\ resp' = Response("create_access_token", 200, "", FALSE, "")
        /\ UNCHANGED <<store, in_flight, now, ACCESS_TOKEN_EXPIRE_MINUTES, registered>>

Verify(token) ==
    LET token_data == verify_token(token, now)
    IN  /\ resp' = IF token_data.raised
                   THEN ErrorResponse("verify_token", token_data.exc)
                   ELSE Response("verify_token", 200, "", FALSE, token_data.value.value)
        /\ rejected' = IF Expired(token, now) THEN rejected \cup {token} ELSE rejected
        /\ UNCHANGED <<store, in_flight, now, ACCESS_TOKEN_EXPIRE_MINUTES, held, registered>>

TokenNext ==
    \/ \E email \in Emails, expires_delta \in Deltas : Mint(email, expires_delta)
    \/ \E token \in HeldTokens \cup ForgedTokens \cup {SublessToken} : Verify(token)
    \/ Tick(MaxTokenTime)

TokenInit == Init /\ ACCESS_TOKEN_EXPIRE_MINUTES = MaxExpireMinutes

TokenSpec == TokenInit /\ [][TokenNext]_vars

----------------------------------------------------------------------------
(* Properties *)

Users(s, email) == {s[i] : i \in Matching(s, email)}

PresentableTokens == HeldTokens \cup ForgedTokens

Valid(token) == ~verify_token(token, now).raised

InvalidCredentials(r) ==
    /\ r.status_code = 401
    /\ r.detail = "Incorrect username or password"
    /\ r.bearer

Unauthorized(r) ==
    /\ r.status_code = 401
    /\ r.detail = "Could not validate credentials"
    /\ r.bearer

\* C1: in every reachable state, concurrent register requests included, the
\* store holds at most one User record per email.
C1_EmailUnique ==
    \A i, j \in 1..Len(store) : store[i].email = store[j].email => i = j

\* C2: a register for an email that already has a record fails with
\* DuplicateEmail (400) and leaves the store exactly as it was, whatever the
\* password: nothing is inserted, now or later, and no record changes.
C2_DuplicateRegisterRejected ==
    [][\A email \in Emails, password \in Passwords :
         (Users(store, email) # {} /\ create_user_find(email, password))
            => /\ resp'.op = "register"
               /\ resp'.status_code = 400
               /\ resp'.detail = "E-mail already exists"
               /\ store' = store
               /\ in_flight' = in_flight]_vars

C2_Witness ==
    /\ resp.op = "register"
    /\ resp.status_code = 400
    /\ Len(store) = 1
    /\ in_flight = {}

\* C3: once register(email) has returned success, every later availability
\* check of that email answers 400 (unavailable); and a check answers
\* "available" only when the store holds no record with that email.
C3_RegisteredIsUnavailable ==
    [][\A email \in Emails :
         (resp'.op = "check_email" /\ check_email(email))
            => /\ (\E x \in registered : x[1] = email)
                     => (resp'.status_code = 400 /\ resp'.detail = "E-mail already exists")
               /\ (resp'.status_code = 200) => Users(store, email) = {}
               /\ resp'.status_code \in {200, 400}]_vars

C3_Witness ==
    /\ resp.op = "check_email"
    /\ resp.status_code = 400
    /\ registered # {}
    /\ now > 0

\* C4: authenticate(email, password) succeeds if and only if a record with
\* that email exists and its stored hash verifies the password; every failure
\* is the same InvalidCredentials answer, issues no token and leaves the
\* store unchanged.
C4_AuthenticateIff ==
    [][\A email \in Emails, password \in Passwords :
         login_for_access_token(email, password)
            => /\ (resp'.status_code = 200)
                     <=> (\E u \in Users(store, email) : verify_password(password, u.hashed_password))
               /\ (resp'.status_code # 200) => (InvalidCredentials(resp') /\ held' = held)
               /\ store' = store]_vars

\* C5: a token minted at time T with a ttl of 15 minutes, given explicitly or
\* by leaving the ttl out, expires at T+15: verify_token accepts it at every
\* time before and rejects it (401) at every time after; a token once
\* rejected as expired is never accepted again.
C5_FifteenMinuteToken ==
    [][/\ \A email \in Emails, d \in {PyNone, timedelta(15)} :
            Mint(email, d) => (held'[email].exp = now + 15 /\ held'[email].sub = PyStr(email))
       /\ \A token \in HeldTokens :
            Verify(token)
               => /\ (now < token.exp) => (resp'.status_code = 200 /\ PyStr(resp'.owner) = token.sub)
                  /\ (now > token.exp) => Unauthorized(resp')
                  /\ (token \in rejected) => Unauthorized(resp')]_vars

C5_Witness ==
    \E email \in Emails :
       /\ held[email] \in rejected
       /\ held[email].exp = 1 + 15
       /\ now = MaxTokenTime
       /\ resp.op = "verify_token"
       /\ resp.status_code = 401

\* C6: the token a successful login issues at time T expires at
\* T + ACCESS_TOKEN_EXPIRE_MINUTES, for every configured value from 0 up.
C6_LoginUsesConfiguredExpiry ==
    [][\A username \in Emails, password \in Passwords :
         (login_for_access_token(username, password) /\ resp'.status_code = 200)
            => held'[username].exp = now + ACCESS_TOKEN_EXPIRE_MINUTES]_vars

\* C7: after register(email, password) has succeeded, a login with that email
\* and password returns a token whose subject is that email, and GET /users/me
\* with that token before its expiry answers [{"owner": email}].
C7_RoundTrip ==
    [][/\ \A email \in Emails, password \in Passwords :
            (login_for_access_token(email, password) /\ <<email, password>> \in registered)
               => /\ resp'.status_code = 200
                  /\ held'[email] # NoToken
                  /\ held'[email].sub = PyStr(email)
       /\ \A email \in Emails :
            (held[email] # NoToken /\ read_own_info(held[email]) /\ now < held[email].exp)
               => (resp'.status_code = 200 /\ resp'.owner = email)]_vars

\* C8: GET /users/me with a correctly signed, unexpired token whose subject
\* has no record in the store answers 401 with the Bearer challenge.
C8_MissingUserUnauthorized ==
    [][\A token \in HeldTokens :
         (read_own_info(token) /\ Valid(token) /\ Users(store, token.sub.value) = {})
            => Unauthorized(resp')]_vars

\* C9: require_active fails with InactiveUser (400) exactly for a user whose
\* disabled flag is set and returns any other user unchanged; GET /users/me
\* with a valid token answers 400 exactly when the subject's stored record
\* (the one find-by-email returns) is disabled and 200 exactly when it is not.
C9_ActiveGuard ==
    [][\A token \in PresentableTokens :
         (resp'.op = "read_own_info" /\ Valid(token) /\ read_own_info(token))
            => LET user == find_one(store, token.sub.value)
                   guarded == get_current_active_user(Return(user))
               IN  /\ (resp'.status_code = 400 /\ resp'.detail = "Inactive user")
                         <=> (user # PyNone /\ user.disabled)
                   /\ (resp'.status_code = 200) <=> (user # PyNone /\ ~user.disabled)
                   /\ (resp'.status_code = 200) => (resp'.owner = user.email /\ guarded = Return(user))
                   /\ (resp'.status_code = 400) => guarded.raised]_vars

C9_Witness ==
    /\ resp.op = "read_own_info"
    /\ resp.status_code = 400
    /\ resp.detail = "Inactive user"
    /\ \E email \in Emails : held[email] # NoToken /\ Valid(held[email])
                                /\ Users(store, email) # {}
                                /\ \A u \in Users(store, email) : u.disabled

\* C10: records are only ever appended, by a successful register; every other
\* request leaves the store unchanged; a record keeps its email,
\* hashed_password and disabled=false for ever, so no record is disabled and
\* GET /users/me never answers InactiveUser.
C10_StoreOnlyGrows ==
    /\ [](/\ \A i \in 1..Len(store) : ~store[i].disabled
          /\ resp.detail # "Inactive user")
    /\ [][/\ Len(store') >= Len(store)
          /\ \A i \in 1..Len(store) : store'[i] = store[i]
          /\ store' # store => /\ Len(store') = Len(store) + 1
                               /\ resp'.op = "register"
                               /\ resp'.status_code = 200
          /\ (\/ health_check
              \/ \E email \in Emails : check_email(email)
              \/ \E email \in Emails, password \in Passwords : login_for_access_token(email, password)
              \/ \E token \in PresentableTokens : read_own_info(token)
              \/ \E email \in Emails, password \in Passwords :
                    create_user_find(email, password))
                => store' = store]_vars

C10_Witness ==
    /\ Len(store) = MaxStore
    /\ resp.op = "read_own_info"
    /\ resp.status_code = 200
    /\ \E email \in Emails : held[email] # NoToken
    /\ now > 0

====
